---------------------------- MODULE Spec2Model ----------------------------
(***************************************************************************)
(* A model of the user-level seL4 object library: the capability address   *)
(* codec (CNodeInfo::decode / CNodeInfo::encode), windows of capability    *)
(* slots (Window::cptr_to / Window::slotref_to) and batched object         *)
(* creation (Allocatable::create as generated by cap_wrapper!).            *)
(*                                                                         *)
(* A machine word (seL4_Word, seL4_CPtr, usize) is modelled as the set of  *)
(* the positions of its 1 bits, position 0 being the least significant:    *)
(* the word 5 is {0, 2}, the word 0 is {}.  Bitwise AND and OR are set     *)
(* intersection and union; shifts move the positions and drop those that   *)
(* leave the word.  This keeps the full width of the word (32 or 64 bits). *)
(***************************************************************************)
EXTENDS Integers, Sequences, FiniteSets, TLC

VARIABLES
    word_bits,   \* width of seL4_Word / usize of the build: 32 or 64
    info,        \* the CNodeInfo the codec and the window are used with
    codec,       \* the last codec call(s): operation, argument, result
    window,      \* the Window cptr_to / slotref_to are called on
    wcall,       \* the last cptr_to / slotref_to call: index and results
    cr,          \* Allocatable::create: its arguments, position and calls
    slots,       \* kernel: the occupied slots of the destination CNode
    ipcbuf,      \* the IPC buffer of the calling thread (seL4_GetIPCBuffer())
    dcall,       \* the last Error::details() call: the error and its outcome
    ep,          \* the endpoint: waiting sender, the caller's call and result
    cd,          \* set_cap_destination / get_cap_destination: the calls made
    crm          \* Allocatable::create as macros.rs defines it, run on the
                 \* window and the call outcomes cr was run on

vars ==
    <<word_bits, info, codec, window, wcall, cr, slots, ipcbuf, dcall, ep, cd,
      crm>>

-----------------------------------------------------------------------------
(* Machine words as sets of bit positions.                                  *)

\* The builds of the crate: x86 and arm have 32-bit words, x86_64 64-bit ones.
WordSizes == {32, 64}

AllOnes(W) == 0 .. (W - 1)

Bit(x, b) == IF b \in x THEN 1 ELSE 0

\* x.wrapping_shl(n): the shift count is taken modulo the width of the type.
wrapping_shl(x, n, W) == {b + (n % W) : b \in x} \cap AllOnes(W)

\* x.wrapping_shr(n): the shift count is taken modulo the width of the type.
wrapping_shr(x, n, W) == {b - (n % W) : b \in x} \cap AllOnes(W)

\* one.wrapping_shl(n).wrapping_sub(1): 1 << (n mod W), minus 1, which is the
\* low (n mod W) bits; for n mod W = 0 it is 1 - 1 = 0.
LowMask(n, W) == 0 .. ((n % W) - 1)

\* The word holding the number n (0 <= n < 2^31).
WordOf(n, W) == {b \in AllOnes(W) : b < 31 /\ (n \div (2 ^ b)) % 2 = 1}

\* The carry into bit position b when adding x and y: some lower position j
\* generates a carry (both bits set) and every position between j and b
\* propagates it (at least one bit set).
CarryInto(x, y, b) ==
    IF \E j \in 0 .. (b - 1) :
         /\ j \in x
         /\ j \in y
         /\ \A k \in (j + 1) .. (b - 1) : k \in x \/ k \in y
    THEN 1
    ELSE 0

\* x.wrapping_add(y): the sum modulo 2^W.
wrapping_add(x, y, W) ==
    {b \in AllOnes(W) : (Bit(x, b) + Bit(y, b) + CarryInto(x, y, b)) % 2 = 1}

-----------------------------------------------------------------------------
(* CNodeInfo and the codec.                                                 *)

\* leftover_bits as decode and encode compute it:
\* size_of::<seL4_Word>() * 8 - prefix_bits - guard_bits - prefix_bits in
\* wrapping usize arithmetic, cast to u32 and used only as a shift count, which
\* wrapping_shl / wrapping_shr reduce modulo W.  W divides 2^32 and 2^W, so the
\* count used is the difference modulo W.
leftover_bits(ci, W) ==
    (W - ci.prefix_bits - ci.guard_bits - ci.prefix_bits) % W

decode(ci, cptr, W) ==
    LET lb       == leftover_bits(ci, W)
        leftover == cptr \cap LowMask(lb, W)
        c1       == wrapping_shr(cptr, lb, W)
        radix    == c1 \cap LowMask(ci.radix_bits, W)
        c2       == wrapping_shr(c1, ci.radix_bits, W)
        guard    == c2 \cap LowMask(ci.guard_bits, W)
        c3       == wrapping_shr(c2, ci.guard_bits, W)
    IN  [prefix |-> c3, guard |-> guard, radix |-> radix, leftover |-> leftover]

encode(ci, decoded, W) ==
    LET lb == leftover_bits(ci, W)
        r0 == decoded.prefix \cap LowMask(ci.prefix_bits, W)
        r1 == wrapping_shl(r0, ci.guard_bits, W)
        r2 == r1 \cup (decoded.guard \cap LowMask(ci.guard_bits, W))
        r3 == wrapping_shl(r2, ci.radix_bits, W)
        r4 == r3 \cup (decoded.radix \cap LowMask(ci.radix_bits, W))
        r5 == wrapping_shl(r4, ci.prefix_bits, W)
    IN  r5 \cup (decoded.leftover \cap LowMask(lb, W))


-----------------------------------------------------------------------------
(* The inputs the codec and the window are exercised on.                    *)

\* The widths <<prefix_bits, guard_bits, radix_bits>> of the table shapes.
\* Each width counts bits of one machine word, so none exceeds W; the sum may
\* (the caller, not the code, keeps it at most W).  <<8, 4, 8>> is the shape of
\* the comment above decode.
ShapeWidths(W) ==
    { <<8, 4, 8>>, <<8, 8, 8>>, <<4, 4, 16>>, <<1, 2, 3>>, <<0, 0, 0>>,
      <<W, 0, 0>>, <<0, 0, W>>, <<W - 12, 4, 8>>, <<W \div 4, W \div 4, W \div 4>>,
      <<20, 10, 10>>, <<W - 4, 8, 8>>, <<W, W, W>> }

\* The sum of the three widths, as a number.
SumBits(ci) == ci.prefix_bits + ci.guard_bits + ci.radix_bits

\* The invariant of a table shape: the three fields fit one word.
ShapeValid(ci, W) == SumBits(ci) <= W

\* The width left to the leftover field by the address layout.
LayoutLeftoverBits(ci, W) == W - SumBits(ci)

\* The low n bits set, for any n >= 0 (no reduction of n modulo W).
LowBits(n, W) == (0 .. (n - 1)) \cap AllOnes(W)

\* The word x fits n bits.
FitsBits(x, n, W) == x \subseteq LowBits(n, W)

\* Values for a field of n bits: zero, all n bits set, only the top one of the
\* n bits set, and a word with every bit set (which fits only n >= W).
FieldVals(n, W) == { {}, LowBits(n, W), {n - 1} \cap AllOnes(W), AllOnes(W) }

Shapes(W) ==
    { [guard_val |-> gv, radix_bits |-> s[3], guard_bits |-> s[2],
       prefix_bits |-> s[1]] :
        s \in ShapeWidths(W), gv \in {{}} } \cup
    { [guard_val |-> LowBits(s[2], W), radix_bits |-> s[3], guard_bits |-> s[2],
       prefix_bits |-> s[1]] : s \in ShapeWidths(W) }

DecodedInputs(ci, W) ==
    [prefix   : FieldVals(ci.prefix_bits, W),
     guard    : FieldVals(ci.guard_bits, W),
     radix    : FieldVals(ci.radix_bits, W),
     leftover : FieldVals(LayoutLeftoverBits(ci, W), W)]

\* The words decode is exercised on: every single bit, zero and all ones.
WordInputs(W) == { {b} : b \in AllOnes(W) } \cup { {}, AllOnes(W) }

\* Each field of d fits its declared width.
FieldsFit(ci, d, W) ==
    /\ FitsBits(d.prefix, ci.prefix_bits, W)
    /\ FitsBits(d.guard, ci.guard_bits, W)
    /\ FitsBits(d.radix, ci.radix_bits, W)
    /\ FitsBits(d.leftover, LayoutLeftoverBits(ci, W), W)

ZeroDecoded == [prefix |-> {}, guard |-> {}, radix |-> {}, leftover |-> {}]

NoCodecCall == [op |-> "none", d |-> ZeroDecoded, w |-> {}, d2 |-> ZeroDecoded, w2 |-> {}]

NoWindow ==
    [cnode |-> [root |-> {}, cptr |-> {}, depth |-> 0],
     first_slot_idx |-> {}, num_slots |-> 0]

NoneWord == [some |-> FALSE, val |-> {}]

NoneSlot == [some |-> FALSE, val |-> [root |-> {}, cptr |-> {}, depth |-> 0]]

NoWindowCall ==
    [op |-> "none", i |-> 0, cptr |-> NoneWord, slot |-> NoneSlot,
     decoded |-> ZeroDecoded]

NoCreate ==
    [pc |-> "idle", untyped_memory |-> {}, objtag |-> "none", size_bits |-> 0,
     dest |-> NoWindow, calls |-> <<>>, result |-> "none"]

\* Number of message registers of the IPC buffer (the length of its msg array).
seL4_MsgMaxLength == 120

\* Number of capabilities one message can carry (the length of caps_or_badges).
seL4_MsgMaxExtraCaps == 3

\* An IPC buffer with every word zero.  Message words are modelled as numbers.
ZeroIPCBuffer ==
    [tag_label      |-> 0,
     msg            |-> [k \in 0 .. (seL4_MsgMaxLength - 1) |-> 0],
     caps_or_badges |-> [k \in 0 .. (seL4_MsgMaxExtraCaps - 1) |-> 0],
     receiveCNode   |-> {},
     receiveIndex   |-> {},
     receiveDepth   |-> {}]

\* No details() call yet.  first_label is the label the failing call left in
\* the buffer, overwritten whether a later call has written the buffer since.
NoDetailsCall ==
    [op |-> "none", err |-> "none", outcome |-> "none", first_label |-> 0,
     overwritten |-> FALSE]

NoEndpointCall == [op |-> "none"]

\* create of macros.rs not entered; occupied is the destination CNode it
\* fills.
NoMacrosCreate ==
    [pc |-> "idle", untyped_memory |-> {}, objtag |-> "none", size_bits |-> 0,
     dest |-> NoWindow, calls |-> <<>>, result |-> "none", occupied |-> {}]

NoCapDestCall ==
    [op |-> "none", last_set |-> [root |-> {}, cptr |-> {}, depth |-> 0],
     got |-> [root |-> {}, cptr |-> {}, depth |-> 0], nsets |-> 0]

-----------------------------------------------------------------------------
(* The codec exercised: encode, decode, and each applied to the other's     *)
(* result.                                                                  *)

InitCodec ==
    /\ word_bits \in WordSizes
    /\ info \in Shapes(word_bits)
    /\ codec = NoCodecCall
    /\ window = NoWindow
    /\ wcall = NoWindowCall
    /\ cr = NoCreate
    /\ slots = {}
    /\ ipcbuf = ZeroIPCBuffer
    /\ dcall = NoDetailsCall
    /\ ep = NoEndpointCall
    /\ cd = NoCapDestCall
    /\ crm = NoMacrosCreate

\* info.encode(&d)
CallEncode ==
    /\ codec.op = "none"
    /\ \E d \in DecodedInputs(info, word_bits) :
         codec' = [codec EXCEPT !.op = "encode", !.d = d,
                                !.w = encode(info, d, word_bits)]
    /\ UNCHANGED <<word_bits, info, window, wcall, cr, slots, ipcbuf, dcall, ep, cd, crm>>

\* info.decode(w)
CallDecode ==
    /\ codec.op = "none"
    /\ \E w \in WordInputs(word_bits) :
         codec' = [codec EXCEPT !.op = "decode", !.w = w,
                                !.d = decode(info, w, word_bits)]
    /\ UNCHANGED <<word_bits, info, window, wcall, cr, slots, ipcbuf, dcall, ep, cd, crm>>

\* info.decode(info.encode(&d)): decode applied to the word encode returned.
CallDecodeOfEncoded ==
    /\ codec.op = "encode"
    /\ codec' = [codec EXCEPT !.op = "encode_decode",
                              !.d2 = decode(info, codec.w, word_bits)]
    /\ UNCHANGED <<word_bits, info, window, wcall, cr, slots, ipcbuf, dcall, ep, cd, crm>>

\* info.encode(&info.decode(w)): encode applied to what decode returned.
CallEncodeOfDecoded ==
    /\ codec.op = "decode"
    /\ codec' = [codec EXCEPT !.op = "decode_encode",
                              !.w2 = encode(info, codec.d, word_bits)]
    /\ UNCHANGED <<word_bits, info, window, wcall, cr, slots, ipcbuf, dcall, ep, cd, crm>>

NextCodec ==
    \/ CallEncode
    \/ CallDecode
    \/ CallDecodeOfEncoded
    \/ CallEncodeOfDecoded

SpecCodec == InitCodec /\ [][NextCodec]_vars

-----------------------------------------------------------------------------
(* The address layout the codec is documented to implement.                 *)

\* The bits of x moved up by n positions, n any number >= 0.
Place(x, n, W) == {b + n : b \in x} \cap AllOnes(W)

\* prefix | guard | radix | leftover, high to low, as in the comment above
\* decode: leftover in the low LayoutLeftoverBits bits, radix above it, guard
\* above radix, prefix on top.
LayoutWord(ci, d, W) ==
    LET l == LayoutLeftoverBits(ci, W)
    IN  Place(d.prefix, l + ci.radix_bits + ci.guard_bits, W)
          \cup Place(d.guard, l + ci.radix_bits, W)
          \cup Place(d.radix, l, W)
          \cup d.leftover

\* C1: for every shape whose widths sum to at most word_bits and every d whose
\* fields fit their widths, decode(encode(d)) equals d field for field.
C1_DecodeEncodeRoundTrip ==
    ( /\ codec.op = "encode_decode"
      /\ ShapeValid(info, word_bits)
      /\ FieldsFit(info, codec.d, word_bits) )
    => codec.d2 = codec.d

\* C2: for every shape whose widths sum to at most word_bits and every word w,
\* encode(decode(w)) equals w.
C2_EncodeDecodeRoundTrip ==
    (codec.op = "decode_encode" /\ ShapeValid(info, word_bits))
    => codec.w2 = codec.w

\* C3: for every shape whose widths sum to at most word_bits, the word encode
\* returns holds the prefix in its high prefix_bits bits, then the guard, then
\* the radix, and the leftover in the remaining low bits.
C3_EncodeLayout ==
    ( /\ codec.op = "encode"
      /\ ShapeValid(info, word_bits)
      /\ FieldsFit(info, codec.d, word_bits) )
    => codec.w = LayoutWord(info, codec.d, word_bits)

-----------------------------------------------------------------------------
(* Window: cptr_to and slotref_to.                                          *)

\* A plausible slip in cptr_to: the bound test off by one (i > num_slots).
cptr_to_bound_off_by_one(win, ci, i, W) ==
    IF i > win.num_slots
    THEN NoneWord
    ELSE [some |-> TRUE,
          val  |-> encode(ci, [prefix   |-> win.cnode.cptr,
                               guard    |-> ci.guard_val,
                               radix    |-> wrapping_add(win.first_slot_idx, WordOf(i, W), W),
                               leftover |-> {}], W)]

\* self.cptr_to(info, i): None for i >= num_slots, else the encoded address of
\* radix first_slot_idx + i under the window's CNode and the shape's guard.
cptr_to(win, ci, i, W) ==
    IF i >= win.num_slots
    THEN NoneWord
    ELSE LET raw == [prefix   |-> win.cnode.cptr,
                     guard    |-> ci.guard_val,
                     radix    |-> wrapping_add(win.first_slot_idx, WordOf(i, W), W),
                     leftover |-> {}]
         IN  [some |-> TRUE, val |-> encode(ci, raw, W)]

\* u8 wrapping_add.
wrapping_add_u8(a, b) == (a + b) % 256

\* A plausible slip in slotref_to: the depth leaves out the prefix bits.
slotref_to_depth_without_prefix(win, ci, i, W) ==
    LET c == cptr_to(win, ci, i, W)
    IN  IF c.some
        THEN [some |-> TRUE,
              val  |-> [root  |-> win.cnode.root,
                        cptr  |-> c.val,
                        depth |-> wrapping_add_u8(ci.radix_bits, ci.guard_bits)]]
        ELSE NoneSlot

\* self.slotref_to(info, i)
slotref_to(win, ci, i, W) ==
    LET c == cptr_to(win, ci, i, W)
    IN  IF c.some
        THEN [some |-> TRUE,
              val  |-> [root  |-> win.cnode.root,
                        cptr  |-> c.val,
                        depth |-> wrapping_add_u8(
                                      wrapping_add_u8(ci.radix_bits, ci.guard_bits),
                                      ci.prefix_bits)]]
        ELSE NoneSlot

\* The largest num_slots of the windows cptr_to / slotref_to are exercised on.
MaxWindowSlots == 3

\* The CNodes a window lies in: the root capability and the CPtr to the CNode
\* (zero, the largest value that fits prefix_bits, and a word with every bit
\* set, which fits only prefix_bits >= W).
CNodeInputs(ci, W) ==
    { [root |-> WordOf(2, W), cptr |-> {}, depth |-> W],
      [root |-> WordOf(9, W), cptr |-> LowBits(ci.prefix_bits, W), depth |-> W],
      [root |-> WordOf(2, W), cptr |-> AllOnes(W), depth |-> W] }

\* first_slot_idx: 0, 5, 2^radix_bits - 1 and the largest usize.
WindowInputs(ci, W) ==
    [cnode          : CNodeInputs(ci, W),
     first_slot_idx : { {}, WordOf(5, W), LowBits(ci.radix_bits, W), AllOnes(W) },
     num_slots      : 0 .. MaxWindowSlots]

InitWindow ==
    /\ word_bits \in WordSizes
    /\ info \in Shapes(word_bits)
    /\ window \in WindowInputs(info, word_bits)
    /\ wcall = NoWindowCall
    /\ codec = NoCodecCall
    /\ cr = NoCreate
    /\ slots = {}
    /\ ipcbuf = ZeroIPCBuffer
    /\ dcall = NoDetailsCall
    /\ ep = NoEndpointCall
    /\ cd = NoCapDestCall
    /\ crm = NoMacrosCreate

\* window.cptr_to(&info, i)
CallCptrTo ==
    /\ wcall.op = "none"
    /\ \E i \in 0 .. (MaxWindowSlots + 1) :
         wcall' = [wcall EXCEPT !.op = "cptr_to", !.i = i,
                                !.cptr = cptr_to(window, info, i, word_bits)]
    /\ UNCHANGED <<word_bits, info, codec, window, cr, slots, ipcbuf, dcall, ep, cd, crm>>

\* window.slotref_to(&info, i), for the index cptr_to was just called with.
CallSlotrefTo ==
    /\ wcall.op = "cptr_to"
    /\ wcall' = [wcall EXCEPT !.op = "slotref_to",
                              !.slot = slotref_to(window, info, wcall.i, word_bits)]
    /\ UNCHANGED <<word_bits, info, codec, window, cr, slots, ipcbuf, dcall, ep, cd, crm>>

\* info.decode(cptr) of the word cptr_to returned.
CallDecodeOfCptr ==
    /\ wcall.op = "cptr_to"
    /\ wcall.cptr.some
    /\ wcall' = [wcall EXCEPT !.op = "decoded",
                              !.decoded = decode(info, wcall.cptr.val, word_bits)]
    /\ UNCHANGED <<word_bits, info, codec, window, cr, slots, ipcbuf, dcall, ep, cd, crm>>

NextWindow ==
    \/ CallCptrTo
    \/ CallSlotrefTo
    \/ CallDecodeOfCptr

SpecWindow == InitWindow /\ [][NextWindow]_vars

\* first_slot_idx + i, and whether that sum stays below 2^radix_bits.
SlotWord(win, i, W) == wrapping_add(win.first_slot_idx, WordOf(i, W), W)

SlotInTable(win, ci, i, W) ==
    /\ CarryInto(win.first_slot_idx, WordOf(i, W), W) = 0
    /\ FitsBits(SlotWord(win, i, W), ci.radix_bits, W)

\* C4: cptr_to(info, i) returns None exactly when i >= num_slots and Some for
\* every i < num_slots, whatever first_slot_idx and the table shape are.
C4_CptrToNoneIffOutOfWindow ==
    (wcall.op # "none") => (wcall.cptr.some <=> wcall.i < window.num_slots)

\* The index one past the window, on a shape whose widths do not fit a word and
\* with first_slot_idx the largest usize: None.
C4_Witness ==
    /\ wcall.op = "cptr_to"
    /\ wcall.i = window.num_slots
    /\ window.num_slots > 0
    /\ ~wcall.cptr.some
    /\ ~ShapeValid(info, word_bits)
    /\ window.first_slot_idx = AllOnes(word_bits)

\* C5: for i < num_slots with first_slot_idx + i < 2^radix_bits, decoding the
\* word cptr_to returns gives radix first_slot_idx + i, prefix cnode.cptr (when
\* it fits prefix_bits), guard info.guard_val and leftover 0.
C5_DecodeOfCptrTo ==
    ( /\ wcall.op = "decoded"
      /\ ShapeValid(info, word_bits)
      /\ wcall.i < window.num_slots
      /\ SlotInTable(window, info, wcall.i, word_bits)
      /\ FitsBits(window.cnode.cptr, info.prefix_bits, word_bits)
      /\ FitsBits(info.guard_val, info.guard_bits, word_bits) )
    => wcall.decoded = [prefix   |-> window.cnode.cptr,
                        guard    |-> info.guard_val,
                        radix    |-> SlotWord(window, wcall.i, word_bits),
                        leftover |-> {}]

\* C6: slotref_to(info, i) returns None exactly when cptr_to(info, i) does;
\* otherwise its root is the window's cnode.root, its cptr the word cptr_to
\* returns and its depth radix_bits + guard_bits + prefix_bits.
C6_SlotrefTo ==
    (wcall.op = "slotref_to") =>
        /\ wcall.slot.some <=> wcall.cptr.some
        /\ wcall.slot.some =>
             /\ wcall.slot.val.root = window.cnode.root
             /\ wcall.slot.val.cptr = wcall.cptr.val
             /\ wcall.slot.val.depth = SumBits(info)

\* slotref_to returned a SlotRef for the last slot of a window, in the CNode of
\* root 9, for a shape with all three widths nonzero.
C6_Witness ==
    /\ wcall.op = "slotref_to"
    /\ wcall.slot.some
    /\ wcall.i + 1 = window.num_slots
    /\ wcall.slot.val.root = WordOf(9, word_bits)
    /\ info.prefix_bits > 0 /\ info.guard_bits > 0 /\ info.radix_bits > 0

-----------------------------------------------------------------------------
(* Allocatable::create, as cap_wrapper! generates it for every object type. *)

\* Most objects one seL4_Untyped_Retype call may create.
CONFIG_RETYPE_FAN_OUT_LIMIT == 256

\* The largest num_slots create is exercised on.
MaxSlots == 800

\* The status seL4_Untyped_Retype returns: 0 for success, an seL4_Error
\* otherwise.
RetypeStatuses == {0, 10}

\* while dest.num_slots > CONFIG_RETYPE_FAN_OUT_LIMIT
WhileCond(dest) == dest.num_slots > CONFIG_RETYPE_FAN_OUT_LIMIT

\* A plausible slip: the final call issued without its guard.
IfCond_always(dest) == TRUE

\* if dest.num_slots > 0
IfCond(dest) == dest.num_slots > 0

\* A plausible slip: the final call copied from the loop with its count.
FinalCount_fan_out_limit(dest) == CONFIG_RETYPE_FAN_OUT_LIMIT

\* The count of the call after the loop: dest.num_slots as seL4_Word.
FinalCount(dest) == dest.num_slots

\* A plausible slip: the loop forgets to take the batch off num_slots.
AdvanceDest_keeps_num_slots(dest, W) ==
    [dest EXCEPT
        !.first_slot_idx =
            wrapping_add(@, WordOf(CONFIG_RETYPE_FAN_OUT_LIMIT, W), W)]

\* A plausible slip: first_slot_idx moves on by one slot too few.
AdvanceDest_one_short(dest, W) ==
    [dest EXCEPT
        !.first_slot_idx =
            wrapping_add(@, WordOf(CONFIG_RETYPE_FAN_OUT_LIMIT - 1, W), W),
        !.num_slots = @ - CONFIG_RETYPE_FAN_OUT_LIMIT]

\* A plausible slip: the loop forgets to move first_slot_idx on.
AdvanceDest_keeps_first_slot(dest, W) ==
    [dest EXCEPT !.num_slots = @ - CONFIG_RETYPE_FAN_OUT_LIMIT]

\* dest.first_slot_idx += LIMIT; dest.num_slots -= LIMIT.  The loop condition
\* keeps the subtraction from underflowing; the addition does not overflow for
\* a window that lies in a table (first_slot_idx + num_slots <= 2^radix_bits).
AdvanceDest(dest, W) ==
    [dest EXCEPT
        !.first_slot_idx = wrapping_add(@, WordOf(CONFIG_RETYPE_FAN_OUT_LIMIT, W), W),
        !.num_slots = @ - CONFIG_RETYPE_FAN_OUT_LIMIT]

\* The arguments of one seL4_Untyped_Retype call, and the status it returned.
RetypeCall(c, count, status) ==
    [untyped   |-> c.untyped_memory,
     objtag    |-> c.objtag,
     size_bits |-> c.size_bits,
     root      |-> c.dest.cnode.root,
     cptr      |-> c.dest.cnode.cptr,
     depth     |-> c.dest.cnode.depth,
     offset    |-> c.dest.first_slot_idx,
     count     |-> count,
     status    |-> status]

\* A plausible slip: the status of a call in the loop is not looked at.
errcheck_noreturn_ignored(status) == FALSE

\* errcheck_noreturn!: whether the macro returns Err(Error(CheckIPCBuf)) from
\* the enclosing function.
errcheck_noreturn(status) == status # 0

\* A plausible slip: the status of the final call is not looked at.
errcheck_always_ok(status) == "Ok"

\* errcheck!: the value the macro returns from the enclosing function.
errcheck(status) == IF status = 0 THEN "Ok" ELSE "Err(CheckIPCBuf)"

RECURSIVE NumOf(_)
\* The number a word holds (for words below 2^31).
NumOf(x) ==
    IF x = {} THEN 0
    ELSE LET b == CHOOSE c \in x : TRUE IN (2 ^ b) + NumOf(x \ {b})

\* The kernel's seL4_Untyped_Retype, as far as the destination CNode goes: a
\* call that returns 0 has put a capability into each of the count slots from
\* offset on; a call that fails has created nothing.
seL4_Untyped_Retype(occupied, call) ==
    IF call.status = 0
    THEN occupied \cup { NumOf(call.offset) + j : j \in 0 .. (call.count - 1) }
    ELSE occupied

\* The windows create is exercised on.
CreateWindowInputs(W) ==
    [cnode          : { [root |-> WordOf(2, W), cptr |-> WordOf(3, W), depth |-> W] },
     first_slot_idx : { {}, WordOf(7, W) },
     num_slots      : 0 .. MaxSlots]

InitCreate ==
    /\ word_bits \in WordSizes
    /\ info = [guard_val |-> {}, radix_bits |-> 12, guard_bits |-> 0,
               prefix_bits |-> word_bits - 12]
    /\ window \in CreateWindowInputs(word_bits)
    /\ cr = NoCreate
    /\ codec = NoCodecCall
    /\ wcall = NoWindowCall
    /\ slots = {}
    /\ ipcbuf = ZeroIPCBuffer
    /\ dcall = NoDetailsCall
    /\ ep = NoEndpointCall
    /\ cd = NoCapDestCall
    /\ crm = NoMacrosCreate

\* T::create(untyped_memory, window, size_bits) is entered: dest is the
\* function's own mutable copy of the window.
CreateEnter ==
    /\ cr.pc = "idle"
    /\ \E tag \in {"seL4_CapTableObject", "seL4_EndpointObject"} :
         cr' = [pc |-> "while", untyped_memory |-> WordOf(20, word_bits),
                objtag |-> tag, size_bits |-> 4, dest |-> window,
                calls |-> <<>>, result |-> "none"]
    /\ UNCHANGED <<word_bits, info, codec, window, wcall, slots, ipcbuf, dcall, ep, cd, crm>>

\* One evaluation of the loop condition and, when it holds, one iteration: a
\* call for CONFIG_RETYPE_FAN_OUT_LIMIT objects, checked by errcheck_noreturn!.
CreateWhile ==
    /\ cr.pc = "while"
    /\ IF WhileCond(cr.dest)
       THEN \E status \in RetypeStatuses :
              LET call == RetypeCall(cr, CONFIG_RETYPE_FAN_OUT_LIMIT, status)
              IN  IF errcheck_noreturn(status)
                  THEN /\ cr' = [cr EXCEPT !.calls = Append(@, call),
                                           !.result = "Err(CheckIPCBuf)",
                                           !.pc = "returned"]
                       /\ slots' = seL4_Untyped_Retype(slots, call)
                  ELSE /\ cr' = [cr EXCEPT !.calls = Append(@, call),
                                           !.dest = AdvanceDest(@, word_bits)]
                       /\ slots' = seL4_Untyped_Retype(slots, call)
       ELSE cr' = [cr EXCEPT !.pc = "if"] /\ slots' = slots
    /\ UNCHANGED <<word_bits, info, codec, window, wcall, ipcbuf, dcall, ep, cd, crm>>

\* The statement after the loop: a call for the remaining objects, checked by
\* errcheck!, or Ok(()) when none remain.
CreateIf ==
    /\ cr.pc = "if"
    /\ IF IfCond(cr.dest)
       THEN \E status \in RetypeStatuses :
              LET call == RetypeCall(cr, FinalCount(cr.dest), status)
              IN  /\ cr' = [cr EXCEPT !.calls = Append(@, call),
                                      !.result = errcheck(status),
                                      !.pc = "returned"]
                  /\ slots' = seL4_Untyped_Retype(slots, call)
       ELSE cr' = [cr EXCEPT !.result = "Ok", !.pc = "returned"] /\ slots' = slots
    /\ UNCHANGED <<word_bits, info, codec, window, wcall, ipcbuf, dcall, ep, cd, crm>>

NextCreate ==
    \/ CreateEnter
    \/ CreateWhile
    \/ CreateIf

SpecCreate == InitCreate /\ [][NextCreate]_vars

\* Every call issued so far returned 0.
AllCallsSucceeded == \A k \in 1 .. Len(cr.calls) : cr.calls[k].status = 0

\* ceil(n / CONFIG_RETYPE_FAN_OUT_LIMIT)
CeilBatches(n) ==
    (n + CONFIG_RETYPE_FAN_OUT_LIMIT - 1) \div CONFIG_RETYPE_FAN_OUT_LIMIT

\* C8: when no call fails, create issues exactly ceil(n / 256) calls for
\* n = num_slots; every call but the last has count 256 and the last has count
\* n - 256 * (ceil(n / 256) - 1).
C8_BatchCounts ==
    (cr.pc = "returned" /\ AllCallsSucceeded) =>
        LET n == window.num_slots
            m == CeilBatches(n)
        IN  /\ Len(cr.calls) = m
            /\ \A k \in 1 .. (m - 1) :
                 cr.calls[k].count = CONFIG_RETYPE_FAN_OUT_LIMIT
            /\ m > 0 =>
                 cr.calls[m].count = n - CONFIG_RETYPE_FAN_OUT_LIMIT * (m - 1)

\* create returned for num_slots = 600 after three successful calls of 256,
\* 256 and 88.
C8_Witness ==
    /\ cr.pc = "returned"
    /\ cr.result = "Ok"
    /\ window.num_slots = 600
    /\ Len(cr.calls) = 3
    /\ cr.calls[1].count = 256 /\ cr.calls[2].count = 256 /\ cr.calls[3].count = 88

\* C9: each call create issues carries a count between 1 and
\* CONFIG_RETYPE_FAN_OUT_LIMIT; num_slots = 256 produces exactly one call and
\* num_slots = 0 none.
C9_CountWithinFanOutLimit ==
    /\ \A k \in 1 .. Len(cr.calls) :
         /\ cr.calls[k].count >= 1
         /\ cr.calls[k].count <= CONFIG_RETYPE_FAN_OUT_LIMIT
    /\ (cr.pc = "returned" /\ window.num_slots = 0) => Len(cr.calls) = 0
    /\ (cr.pc = "returned" /\ window.num_slots = CONFIG_RETYPE_FAN_OUT_LIMIT)
         => Len(cr.calls) = 1

\* create returned for num_slots = 256 after one call of 256.
C9_Witness ==
    /\ cr.pc = "returned"
    /\ window.num_slots = CONFIG_RETYPE_FAN_OUT_LIMIT
    /\ Len(cr.calls) = 1
    /\ cr.calls[1].count = CONFIG_RETYPE_FAN_OUT_LIMIT

\* C10: once a call returns a nonzero status no further call is issued: a
\* failing call is the last call, and create has returned.
C10_FailingCallIsLast ==
    \A k \in 1 .. Len(cr.calls) :
        cr.calls[k].status # 0 => (k = Len(cr.calls) /\ cr.pc = "returned")

\* The second call of a create for more than 512 objects failed and create
\* returned with two calls issued.
C10_Witness ==
    /\ cr.pc = "returned"
    /\ window.num_slots > 2 * CONFIG_RETYPE_FAN_OUT_LIMIT
    /\ Len(cr.calls) = 2
    /\ cr.calls[1].status = 0
    /\ cr.calls[2].status # 0
    /\ cr.result = "Err(CheckIPCBuf)"

\* The slots of the window that the first j calls of 256 objects cover.
SlotsOfBatches(j) ==
    { NumOf(window.first_slot_idx) + i :
        i \in 0 .. (CONFIG_RETYPE_FAN_OUT_LIMIT * j - 1) }

\* C11: if the k-th call of a create fails (a failing call creating nothing),
\* then after create returns exactly the slots covered by the first k-1 calls
\* are occupied, first_slot_idx .. first_slot_idx + 256*(k-1) - 1: nothing
\* created earlier is deleted and nothing is created later.
C11_PartialFailure ==
    ( /\ cr.pc = "returned"
      /\ Len(cr.calls) > 0
      /\ cr.calls[Len(cr.calls)].status # 0 )
    => slots = SlotsOfBatches(Len(cr.calls) - 1)

\* The third call of a create failed: the 512 slots of the first two calls are
\* occupied.
C11_Witness ==
    /\ cr.pc = "returned"
    /\ Len(cr.calls) = 3
    /\ cr.calls[3].status # 0
    /\ Cardinality(slots) = 2 * CONFIG_RETYPE_FAN_OUT_LIMIT
    /\ window.first_slot_idx # {}

\* C12: create returns Ok(()) exactly when every call it issued returned 0
\* (zero calls included) and Err(Error(CheckIPCBuf)) exactly when one of its
\* calls returned a nonzero status.
C12_CreateResult ==
    (cr.pc = "returned") =>
        /\ cr.result = "Ok" <=> AllCallsSucceeded
        /\ cr.result = "Err(CheckIPCBuf)" <=> ~AllCallsSucceeded

\* create returned Err(Error(CheckIPCBuf)) after a successful first call and a
\* failing final call.
C12_Witness ==
    /\ cr.pc = "returned"
    /\ cr.result = "Err(CheckIPCBuf)"
    /\ Len(cr.calls) = 2
    /\ cr.calls[1].status = 0
    /\ cr.calls[2].status # 0
    /\ cr.calls[2].count < CONFIG_RETYPE_FAN_OUT_LIMIT

-----------------------------------------------------------------------------
\* Error::details (error.rs): the error a failed call left in the IPC buffer.

\* seL4_Error, the values of the kernel's error labels.
seL4_NoError == 0
seL4_InvalidArgument == 1
seL4_InvalidCapability == 2
seL4_IllegalOperation == 3
seL4_RangeError == 4
seL4_AlignmentError == 5
seL4_FailedLookup == 6
seL4_TruncatedMessage == 7
seL4_DeleteFirst == 8
seL4_RevokeFirst == 9
seL4_NotEnoughMemory == 10

\* seL4_LookupFailureType, the values of the kernel's lookup failure types.
seL4_NoFailure == 0
seL4_InvalidRoot == 1
seL4_MissingCapability == 2
seL4_DepthMismatch == 3
seL4_GuardMismatch == 4

\* Largest label and largest lookup failure type the buffers examined hold.
MaxLabel == 12
MaxKind == 5

\* What a call comes to: a panic (a failed assert!), None, or Some(v).
Panic == [kind |-> "panic"]
None == [kind |-> "None"]
Some(v) == [kind |-> "Some", val |-> v]

\* The arms of the match in from_ipcbuf, for a valid seL4_LookupFailureType.
LookupFailureArm(k, buf, details_idx) ==
    CASE k = seL4_NoFailure -> None
      [] k = seL4_InvalidRoot -> Some([tag |-> "InvalidRoot"])
      [] k = seL4_MissingCapability ->
            Some([tag |-> "MissingCapability",
                  bits_remaining |-> buf.msg[details_idx]])
      [] k = seL4_DepthMismatch ->
            Some([tag |-> "DepthMismatch",
                  bits_remaining |-> buf.msg[details_idx],
                  bits_resolved |-> buf.msg[details_idx + 1]])
      [] k = seL4_GuardMismatch ->
            Some([tag |-> "GuardMismatch",
                  bits_remaining |-> buf.msg[details_idx],
                  guard |-> buf.msg[details_idx + 1],
                  guard_size |-> buf.msg[details_idx + 2]])

\* The assertion of from_ipcbuf, as written: kind > seL4_GuardMismatch.
from_ipcbuf_assert(kind) == kind > seL4_GuardMismatch

\* LookupFailureKind::from_ipcbuf: the set of results it can come to.  A kind
\* that passes the assertion is no seL4_LookupFailureType, and the match on the
\* transmuted value is undefined: it may take any arm, or trap.
from_ipcbuf(buf, type_idx, details_idx) ==
    LET kind == buf.msg[type_idx]
    IN  IF ~from_ipcbuf_assert(kind)
        THEN {Panic}
        ELSE IF kind \in seL4_NoFailure .. seL4_GuardMismatch
             THEN {LookupFailureArm(kind, buf, details_idx)}
             ELSE {Panic} \cup
                  { LookupFailureArm(k, buf, details_idx) :
                      k \in seL4_NoFailure .. seL4_GuardMismatch }

\* The seL4_FailedLookup arm of details: a panic of from_ipcbuf goes on, its
\* None makes details return None, its Some(s) is wrapped.
FailedLookupArm(buf) ==
    { IF o.kind = "Some"
      THEN Some([tag |-> "FailedLookup",
                 failed_for_source |-> (buf.msg[0] = 1),
                 lookup_kind |-> o.val])
      ELSE o : o \in from_ipcbuf(buf, 1, 2) }

\* The arms of the match in details, for a valid seL4_Error: the set of results.
DetailsArm(l, buf) ==
    CASE l = seL4_NoError -> {None}
      [] l = seL4_InvalidArgument ->
            {Some([tag |-> "InvalidArgument", which |-> buf.msg[0]])}
      [] l = seL4_InvalidCapability ->
            {Some([tag |-> "InvalidCapability", which |-> buf.msg[0]])}
      [] l = seL4_IllegalOperation -> {Some([tag |-> "IllegalOperation"])}
      [] l = seL4_RangeError ->
            {Some([tag |-> "RangeError", min |-> buf.msg[0], max |-> buf.msg[1]])}
      [] l = seL4_AlignmentError -> {Some([tag |-> "AlignmentError"])}
      [] l = seL4_FailedLookup -> FailedLookupArm(buf)
      [] l = seL4_TruncatedMessage -> {Some([tag |-> "TruncatedMessage"])}
      [] l = seL4_DeleteFirst -> {Some([tag |-> "DeleteFirst"])}
      [] l = seL4_RevokeFirst -> {Some([tag |-> "RevokeFirst"])}
      [] l = seL4_NotEnoughMemory ->
            {Some([tag |-> "NotEnoughMemory", bytes_available |-> buf.msg[0]])}

\* The assertion of details, as written: label > seL4_NotEnoughMemory.
details_assert(label) == label > seL4_NotEnoughMemory

\* Error::details: the set of results it can come to for the error err with
\* the IPC buffer buf.  A label that passes the assertion is no seL4_Error, and
\* the match on the transmuted value is undefined: any arm, or a trap.
details(err, buf) ==
    CASE err = "TooMuchData" -> {Some([tag |-> "TooMuchData"])}
      [] err = "TooManyCaps" -> {Some([tag |-> "TooManyCaps"])}
      [] err = "CheckIPCBuf" ->
            LET label == buf.tag_label
            IN  IF ~details_assert(label)
                THEN {Panic}
                ELSE IF label \in seL4_NoError .. seL4_NotEnoughMemory
                     THEN DetailsArm(label, buf)
                     ELSE UNION { DetailsArm(l, buf) :
                                    l \in seL4_NoError .. seL4_NotEnoughMemory }
                          \cup {Panic}

\* The values of the message registers details looks at.
MsgVals == {0, 1, 7}

\* The IPC buffers details is called with: any label, any lookup failure type
\* in msg[1], a few values in the other registers read.
DetailsBuffers ==
    { [ZeroIPCBuffer EXCEPT !.tag_label = l,
                            !.msg = [@ EXCEPT ![0] = m0, ![1] = m1, ![2] = m2,
                                              ![3] = m3, ![4] = m4]] :
        l \in 0 .. MaxLabel, m0 \in MsgVals, m1 \in 0 .. MaxKind,
        m2 \in {0, 7}, m3 \in {0, 7}, m4 \in {0, 7} }

GoOn == {"CheckIPCBuf", "TooMuchData", "TooManyCaps"}

InitDetails ==
    /\ word_bits = 32
    /\ info = [guard_val |-> {}, radix_bits |-> 0, guard_bits |-> 0, prefix_bits |-> 0]
    /\ codec = NoCodecCall
    /\ window = NoWindow
    /\ wcall = NoWindowCall
    /\ cr = NoCreate
    /\ slots = {}
    /\ ipcbuf \in DetailsBuffers
    /\ dcall = [NoDetailsCall EXCEPT !.first_label = ipcbuf.tag_label]
    /\ ep = NoEndpointCall
    /\ cd = NoCapDestCall
    /\ crm = NoMacrosCreate

\* What a later call on the same thread leaves in the buffer: a label and the
\* first two message registers.
LaterLabels == {seL4_NoError, seL4_RangeError, seL4_NotEnoughMemory + 1}
LaterWords == {2, 3}

\* Another call on the same thread fails (or succeeds) after the one the Error
\* came from and before details() is called: the kernel writes the buffer.
InterveningCall ==
    /\ dcall.op = "none"
    /\ ~dcall.overwritten
    /\ \E l \in LaterLabels, m0 \in LaterWords, m1 \in LaterWords :
          ipcbuf' = [ipcbuf EXCEPT !.tag_label = l,
                                   !.msg = [@ EXCEPT ![0] = m0, ![1] = m1]]
    /\ dcall' = [dcall EXCEPT !.overwritten = TRUE]
    /\ UNCHANGED <<word_bits, info, codec, window, wcall, cr, slots, ep, cd, crm>>

\* self.details() for an Error(err): the buffer is read, not written.  The
\* Error itself is the GoOn tag and nothing else.
CallDetails ==
    /\ dcall.op = "none"
    /\ \E err \in GoOn :
         \E outcome \in details(err, ipcbuf) :
            dcall' = [dcall EXCEPT !.op = "details", !.err = err,
                                   !.outcome = outcome]
    /\ UNCHANGED <<word_bits, info, codec, window, wcall, cr, slots, ipcbuf, ep, cd, crm>>

NextDetails ==
    \/ InterveningCall
    \/ CallDetails

SpecDetails == InitDetails /\ [][NextDetails]_vars

\* details() was called on an Error(CheckIPCBuf) with the label l in the buffer.
DetailsCalledWithLabel(l) ==
    /\ dcall.op = "details"
    /\ dcall.err = "CheckIPCBuf"
    /\ ipcbuf.tag_label = l

\* C13: with the label RangeError in the buffer, msg[0] = a and msg[1] = b,
\* details() returns Some(RangeError { min: a, max: b }).
C13_RangeError ==
    DetailsCalledWithLabel(seL4_RangeError) =>
        dcall.outcome = Some([tag |-> "RangeError",
                              min |-> ipcbuf.msg[0], max |-> ipcbuf.msg[1]])

\* The LookupFailureKind that msg[1] names, with its words from msg[2..4];
\* NoKind where msg[1] names no failure or no known type.
NoKind == [tag |-> "none"]
LookupKindOf(buf) ==
    IF buf.msg[1] \in seL4_InvalidRoot .. seL4_GuardMismatch
    THEN LookupFailureArm(buf.msg[1], buf, 2).val
    ELSE NoKind

\* C14: with the label FailedLookup in the buffer, details() returns
\* Some(FailedLookup { failed_for_source, lookup_kind }) where
\* failed_for_source is msg[0] == 1 and lookup_kind is the kind msg[1] names,
\* with its words taken from msg[2], msg[3], msg[4].
C14_FailedLookup ==
    ( /\ DetailsCalledWithLabel(seL4_FailedLookup)
      /\ ipcbuf.msg[1] \in seL4_InvalidRoot .. seL4_GuardMismatch )
    => dcall.outcome = Some([tag |-> "FailedLookup",
                             failed_for_source |-> (ipcbuf.msg[0] = 1),
                             lookup_kind |-> LookupKindOf(ipcbuf)])

\* C15: with the label seL4_NoError in the buffer, details() returns None.
C15_NoError ==
    DetailsCalledWithLabel(seL4_NoError) => dcall.outcome = None

\* C16: with a label above seL4_NotEnoughMemory in the buffer, details()
\* aborts on its assertion; it produces neither a value nor None.
C16_UnknownLabelAborts ==
    ( /\ dcall.op = "details"
      /\ dcall.err = "CheckIPCBuf"
      /\ ipcbuf.tag_label > seL4_NotEnoughMemory )
    => dcall.outcome = Panic

-----------------------------------------------------------------------------
\* Endpoint (endpoint.rs): send_message, try_send_message, recv, try_recv and
\* the RecvToken accessors, called by one thread on one endpoint.

\* Number of calls the thread makes in one behaviour, and of senders that can
\* wait on the endpoint at once.
MaxCalls == 2
MaxSenders == 1

\* The word every element of a data slice holds, and of a caps slice.
DataWord == 5
CapWord == 8

\* The lengths of the data and caps slices handed to the send calls.
DataLens == {1, seL4_MsgMaxLength, seL4_MsgMaxLength + 1}
CapsLens == {0, seL4_MsgMaxExtraCaps, seL4_MsgMaxExtraCaps + 1}

\* The label the IPC buffer's tag holds once a send system call is over.
LabelsAfterSend == {seL4_NoError, seL4_FailedLookup}

\* seL4_MessageInfo::new(label, capsUnwrapped, extraCaps, length).
seL4_MessageInfo_new(label, capsUnwrapped, extraCaps, length) ==
    [label |-> label, capsUnwrapped |-> capsUnwrapped,
     extraCaps |-> extraCaps, length |-> length]

ZeroMessageInfo == seL4_MessageInfo_new(0, 0, 0, 0)

\* RecvToken::from_raw.
from_raw(sender, message_info) ==
    [badge |-> sender,
     label |-> message_info.label,
     caps_unwrapped |-> message_info.capsUnwrapped,
     len |-> message_info.length]

NoCall ==
    [op |-> "none", data_len |-> 0, caps_len |-> 0, slice_len |-> 0,
     msginfo |-> ZeroMessageInfo, buf_before |-> ZeroIPCBuffer,
     sends_before |-> 0, had_sender |-> FALSE, delivered |-> FALSE,
     copied |-> 0]

\* A slip: the caps check comes before the data check.
send_check_caps_first(data_len, caps_len) ==
    IF caps_len > seL4_MsgMaxExtraCaps THEN "Err(TooManyCaps)"
    ELSE IF data_len > seL4_MsgMaxLength THEN "Err(TooMuchData)"
    ELSE "pass"

\* The two length checks that open send_message and try_send_message.
send_check(data_len, caps_len) ==
    IF data_len > seL4_MsgMaxLength THEN "Err(TooMuchData)"
    ELSE IF caps_len > seL4_MsgMaxExtraCaps THEN "Err(TooManyCaps)"
    ELSE "pass"

\* The two copy_nonoverlapping calls: data into msg, caps into caps_or_badges.
CopyIntoBuffer(buf, data_len, caps_len) ==
    [buf EXCEPT
       !.msg = [k \in DOMAIN @ |-> IF k < data_len THEN DataWord ELSE @[k]],
       !.caps_or_badges =
           [k \in DOMAIN @ |-> IF k < caps_len THEN CapWord ELSE @[k]]]

\* A slip: the label left in the buffer is not looked at.
send_result_ignores_label(label) == "Ok"

\* The test that closes the send calls: a nonzero label in the buffer's tag
\* makes them return Err(Error(CheckIPCBuf)).
send_result(label) == IF label # 0 THEN "Err(CheckIPCBuf)" ELSE "Ok"

\* The messages other threads send on the endpoint, as the kernel hands them
\* to a receiver: the badge of the sender's capability and the message info
\* (capsUnwrapped is a mask of three bits, length at most seL4_MsgMaxLength).
SenderMessages ==
    [badge : {1},
     info : { seL4_MessageInfo_new(5, cu, 0, len) :
                cu \in {0, 4, 7}, len \in {2, seL4_MsgMaxLength} }]

\* The state of the endpoint and of the calling thread before any call.
IdleEndpoint ==
    [queue |-> <<>>, thread |-> "running", call |-> NoCall, result |-> "none",
     token |-> from_raw(0, ZeroMessageInfo), sends |-> 0, ncalls |-> 0]

InitEndpoint ==
    /\ word_bits = 32
    /\ info = [guard_val |-> {}, radix_bits |-> 0, guard_bits |-> 0, prefix_bits |-> 0]
    /\ codec = NoCodecCall
    /\ window = NoWindow
    /\ wcall = NoWindowCall
    /\ cr = NoCreate
    /\ slots = {}
    /\ ipcbuf \in { [ZeroIPCBuffer EXCEPT !.tag_label = l] : l \in LabelsAfterSend }
    /\ dcall = NoDetailsCall
    /\ ep = IdleEndpoint
    /\ cd = NoCapDestCall
    /\ crm = NoMacrosCreate

\* The thread is free to make another call.
CanCall == ep.thread = "running" /\ ep.ncalls < MaxCalls

\* send_message(data, caps) and try_send_message(data, caps), up to the system
\* call: the length checks, the copies into the IPC buffer, then seL4_Send
\* (which suspends the thread until the message is taken) or seL4_NBSend.
CallSend(op, data_len, caps_len) ==
    LET c == [NoCall EXCEPT !.op = op, !.data_len = data_len,
                            !.caps_len = caps_len, !.buf_before = ipcbuf,
                            !.sends_before = ep.sends]
        checked == send_check(data_len, caps_len)
    IN  /\ CanCall
        /\ IF checked # "pass"
           THEN /\ ep' = [ep EXCEPT !.call = c, !.result = checked,
                                    !.ncalls = @ + 1]
                /\ ipcbuf' = ipcbuf
           ELSE /\ ep' = [ep EXCEPT
                            !.call = [c EXCEPT !.msginfo =
                                        seL4_MessageInfo_new(0, 0, caps_len, data_len)],
                            !.result = "none",
                            !.thread = "in_send",
                            !.sends = @ + 1,
                            !.ncalls = @ + 1]
                /\ ipcbuf' = CopyIntoBuffer(ipcbuf, data_len, caps_len)

CallSendMessage ==
    /\ \E data_len \in DataLens, caps_len \in CapsLens :
          CallSend("send_message", data_len, caps_len)
    /\ UNCHANGED <<word_bits, info, codec, window, wcall, cr, slots, dcall, cd, crm>>

CallTrySendMessage ==
    /\ \E data_len \in DataLens, caps_len \in CapsLens :
          CallSend("try_send_message", data_len, caps_len)
    /\ UNCHANGED <<word_bits, info, codec, window, wcall, cr, slots, dcall, cd, crm>>

\* The send system call is over (for seL4_Send: a receiver took the message);
\* the call tests the label now in the buffer and returns.
SendReturns ==
    /\ ep.thread = "in_send"
    /\ \E l \in LabelsAfterSend :
          /\ ipcbuf' = [ipcbuf EXCEPT !.tag_label = l]
          /\ ep' = [ep EXCEPT !.thread = "running", !.result = send_result(l)]
    /\ UNCHANGED <<word_bits, info, codec, window, wcall, cr, slots, dcall, cd, crm>>

\* The word every message register of a received message holds.
SenderWord == 9

\* Another thread sends on the endpoint and waits there for a receiver.
SenderArrives ==
    /\ Len(ep.queue) < MaxSenders
    /\ \E m \in SenderMessages : ep' = [ep EXCEPT !.queue = Append(@, m)]
    /\ UNCHANGED <<word_bits, info, codec, window, wcall, cr, slots, ipcbuf, dcall, cd, crm>>

\* The kernel hands the message of the first waiting sender to the receiver:
\* its words go into the receiver's message registers.
DeliverInto(buf, m) ==
    [buf EXCEPT !.msg = [k \in DOMAIN @ |->
                            IF k < m.info.length THEN SenderWord ELSE @[k]]]

\* What a failed seL4_NBRecv leaves as message info.
FailedRecvInfos == {ZeroMessageInfo, seL4_MessageInfo_new(5, 0, 0, 2)}

\* The receive system calls on the endpoint: with a sender waiting, either
\* takes its message and returns its badge; with none, seL4_NBRecv returns at
\* once with the badge 0 and seL4_Recv suspends the thread.
ReceiveSyscall(syscall, c) ==
    IF ep.queue # <<>>
    THEN LET m == Head(ep.queue)
         IN  /\ ep' = [ep EXCEPT
                         !.queue = Tail(@),
                         !.call = [c EXCEPT !.had_sender = TRUE,
                                            !.delivered = TRUE],
                         !.token = from_raw(m.badge, m.info),
                         !.result = "token",
                         !.ncalls = @ + 1]
             /\ ipcbuf' = DeliverInto(ipcbuf, m)
    ELSE IF syscall = "seL4_NBRecv"
         THEN /\ \E mi \in FailedRecvInfos :
                    ep' = [ep EXCEPT !.call = c,
                                     !.token = from_raw(0, mi),
                                     !.result = "token",
                                     !.ncalls = @ + 1]
              /\ ipcbuf' = ipcbuf
         ELSE /\ ep' = [ep EXCEPT !.call = c, !.thread = "in_recv",
                                  !.result = "none", !.ncalls = @ + 1]
              /\ ipcbuf' = ipcbuf

\* A slip: recv made with the call that does not wait.
recv_syscall_nonblocking == "seL4_NBRecv"

\* The system call recv makes.
recv_syscall == "seL4_Recv"

\* A slip: try_recv made with the call that waits.
try_recv_syscall_blocking == "seL4_Recv"

\* The system call try_recv makes.
try_recv_syscall == "seL4_NBRecv"

\* self.recv(): sender = 0, seL4_Recv, RecvToken::from_raw.
CallRecv ==
    /\ CanCall
    /\ ReceiveSyscall(recv_syscall, [NoCall EXCEPT !.op = "recv"])
    /\ UNCHANGED <<word_bits, info, codec, window, wcall, cr, slots, dcall, cd, crm>>

\* self.try_recv(): sender = 0, seL4_NBRecv, RecvToken::from_raw.
CallTryRecv ==
    /\ CanCall
    /\ ReceiveSyscall(try_recv_syscall, [NoCall EXCEPT !.op = "try_recv"])
    /\ UNCHANGED <<word_bits, info, codec, window, wcall, cr, slots, dcall, cd, crm>>

\* A sender has arrived for a thread suspended in a receive: the system call
\* returns with its message, and the call returns the token.
RecvReturns ==
    /\ ep.thread = "in_recv"
    /\ ep.queue # <<>>
    /\ LET m == Head(ep.queue)
       IN  /\ ep' = [ep EXCEPT !.queue = Tail(@),
                               !.call = [@ EXCEPT !.delivered = TRUE],
                               !.thread = "running",
                               !.token = from_raw(m.badge, m.info),
                               !.result = "token"]
           /\ ipcbuf' = DeliverInto(ipcbuf, m)
    /\ UNCHANGED <<word_bits, info, codec, window, wcall, cr, slots, dcall, cd, crm>>

\* The lengths of the slices handed to get_data and to get_unwrapped_caps.
DataSliceLens == {1, 2, seL4_MsgMaxLength - 1, seL4_MsgMaxLength}
CapsSliceLens == {0, seL4_MsgMaxExtraCaps, seL4_MsgMaxExtraCaps + 1}

\* The test that opens get_data and get_unwrapped_caps, as written: Err only
\* for a slice shorter than both the buffer's array (max) and the count.
slice_too_short(slice_len, max, count) == slice_len < max /\ slice_len < count

\* get_data and get_unwrapped_caps: Err(()) with nothing copied, or count
\* words copied into the slice.  Copying past the end of the slice is
\* undefined: the call may return Ok(()) or trap.
ReadOut(op, slice_len, max, count) ==
    LET c == [NoCall EXCEPT !.op = op, !.slice_len = slice_len]
    IN  /\ CanCall
        /\ ep.result = "token"
        /\ IF slice_too_short(slice_len, max, count)
           THEN ep' = [ep EXCEPT !.call = c, !.result = "Err(())",
                                 !.ncalls = @ + 1]
           ELSE \E r \in (IF count > slice_len THEN {"Ok", "trap"} ELSE {"Ok"}) :
                   ep' = [ep EXCEPT !.call = [c EXCEPT !.copied = count],
                                    !.result = r, !.ncalls = @ + 1]

\* token.get_data(data) on the token a receive returned.
CallGetData ==
    /\ \E slice_len \in DataSliceLens :
          ReadOut("get_data", slice_len, seL4_MsgMaxLength, ep.token.len)
    /\ UNCHANGED <<word_bits, info, codec, window, wcall, cr, slots, ipcbuf, dcall, cd, crm>>

\* token.get_unwrapped_caps(caps) on the token a receive returned.
CallGetUnwrappedCaps ==
    /\ \E slice_len \in CapsSliceLens :
          ReadOut("get_unwrapped_caps", slice_len, seL4_MsgMaxExtraCaps,
                  ep.token.caps_unwrapped)
    /\ UNCHANGED <<word_bits, info, codec, window, wcall, cr, slots, ipcbuf, dcall, cd, crm>>

NextEndpoint ==
    \/ CallSendMessage
    \/ CallTrySendMessage
    \/ SendReturns
    \/ SenderArrives
    \/ CallRecv
    \/ CallTryRecv
    \/ RecvReturns
    \/ CallGetData
    \/ CallGetUnwrappedCaps

SpecEndpoint == InitEndpoint /\ [][NextEndpoint]_vars

\* The last call was a send call that has returned.
SendReturned ==
    /\ ep.call.op \in {"send_message", "try_send_message"}
    /\ ep.thread = "running"

\* The last call issued no system call and left the IPC buffer as it was.
NothingSentNorWritten ==
    /\ ep.sends = ep.call.sends_before
    /\ ipcbuf = ep.call.buf_before

\* C17 as stated: send_message and try_send_message return Err(TooMuchData)
\* for data longer than seL4_MsgMaxLength and Err(TooManyCaps) for more caps
\* than seL4_MsgMaxExtraCaps, in both cases before any kernel send and without
\* writing to the IPC buffer.
C17_OversizeRejected ==
    SendReturned =>
        /\ (ep.call.data_len > seL4_MsgMaxLength) =>
              (ep.result = "Err(TooMuchData)" /\ NothingSentNorWritten)
        /\ (ep.call.caps_len > seL4_MsgMaxExtraCaps) =>
              (ep.result = "Err(TooManyCaps)" /\ NothingSentNorWritten)

\* C17 as amended: the data check comes first.  Data longer than
\* seL4_MsgMaxLength gives Err(TooMuchData) whatever the caps; more caps than
\* seL4_MsgMaxExtraCaps give Err(TooManyCaps) when the data is within its
\* limit; in both cases no kernel send is issued and the IPC buffer is not
\* written.
C17_OversizeRejectedDataFirst ==
    SendReturned =>
        /\ (ep.call.data_len > seL4_MsgMaxLength) =>
              (ep.result = "Err(TooMuchData)" /\ NothingSentNorWritten)
        /\ ( /\ ep.call.caps_len > seL4_MsgMaxExtraCaps
             /\ ep.call.data_len <= seL4_MsgMaxLength ) =>
              (ep.result = "Err(TooManyCaps)" /\ NothingSentNorWritten)

\* After a first send that wrote the buffer, try_send_message with data that
\* fits and too many caps returned Err(TooManyCaps).
C17_Witness ==
    /\ SendReturned
    /\ ep.call.op = "try_send_message"
    /\ ep.call.caps_len > seL4_MsgMaxExtraCaps
    /\ ep.call.data_len = seL4_MsgMaxLength
    /\ ep.result = "Err(TooManyCaps)"
    /\ ep.sends = 1
    /\ ipcbuf.msg[0] = DataWord

\* C18: send_message fails only because data or caps is too long: with both
\* within their limits it returns Ok(()), and every Err it returns is
\* TooMuchData or TooManyCaps, whatever the kernel leaves in the IPC buffer.
C18_SendFailsOnlyForSize ==
    (ep.call.op = "send_message" /\ ep.thread = "running") =>
        /\ ( /\ ep.call.data_len <= seL4_MsgMaxLength
             /\ ep.call.caps_len <= seL4_MsgMaxExtraCaps ) => ep.result = "Ok"
        /\ ep.result \in {"Ok", "Err(TooMuchData)", "Err(TooManyCaps)"}

\* C19: try_recv on an endpoint with no waiting sender returns at once with
\* the badge 0 and never leaves the caller suspended; recv returns only with
\* the message of a sender and is suspended until one has arrived.
C19_TryRecvNeverBlocks ==
    /\ (ep.call.op = "try_recv") =>
          /\ ep.thread = "running"
          /\ ep.result = "token"
          /\ ~ep.call.had_sender => ep.token.badge = 0
    /\ (ep.call.op = "recv") =>
          /\ ep.thread = "in_recv" <=> ~ep.call.delivered
          /\ ep.thread = "running" => ep.result = "token"
          /\ (~ep.call.had_sender /\ ep.queue = <<>> /\ ~ep.call.delivered)
                => ep.thread = "in_recv"

\* try_recv found no sender and returned a token with the badge 0.
C19_Witness ==
    /\ ep.call.op = "try_recv"
    /\ ~ep.call.had_sender
    /\ ep.queue = <<>>
    /\ ep.thread = "running"
    /\ ep.token.badge = 0

\* The count of words the last read-out call had to copy.
ReadOutCount ==
    IF ep.call.op = "get_data" THEN ep.token.len ELSE ep.token.caps_unwrapped

\* C20: get_data returns Err(()) whenever the slice is shorter than
\* words_transferred, and get_unwrapped_caps whenever it is shorter than
\* caps_unwrapped, so neither copies more words than the slice holds.
C20_ReadOutWithinSlice ==
    (ep.call.op \in {"get_data", "get_unwrapped_caps"}) =>
        /\ (ep.call.slice_len < ReadOutCount) => ep.result = "Err(())"
        /\ ep.call.copied <= ep.call.slice_len

-----------------------------------------------------------------------------
(* The codec against the address layout, field by field.                    *)

\* The n bits of w from position lo on, as a number of their own.
LayoutField(w, lo, n) == {b - lo : b \in {c \in w : c >= lo /\ c < lo + n}}

\* The four fields of w under the layout of the comment above decode:
\* leftover the low LayoutLeftoverBits bits, radix the next radix_bits, guard
\* the next guard_bits, prefix everything above.
LayoutDecode(ci, w, W) ==
    LET l == LayoutLeftoverBits(ci, W)
    IN  [prefix   |-> LayoutField(w, l + ci.radix_bits + ci.guard_bits, W),
         guard    |-> LayoutField(w, l + ci.radix_bits, ci.guard_bits),
         radix    |-> LayoutField(w, l, ci.radix_bits),
         leftover |-> LayoutField(w, 0, l)]

\* C21: for every shape whose widths sum to at most word_bits (radix_bits
\* equal to prefix_bits or not), decode splits the word with leftover_bits =
\* word_bits - prefix_bits - guard_bits - radix_bits: leftover the low
\* leftover_bits bits, radix the next radix_bits, guard the next guard_bits,
\* prefix everything above.
C21_DecodeLayout ==
    (codec.op = "decode" /\ ShapeValid(info, word_bits))
    => codec.d = LayoutDecode(info, codec.w, word_bits)

\* The declared width of each field of a DecodedCPtr.
FieldWidth(ci, f, W) ==
    CASE f = "prefix" -> ci.prefix_bits
      [] f = "guard" -> ci.guard_bits
      [] f = "radix" -> ci.radix_bits
      [] f = "leftover" -> LayoutLeftoverBits(ci, W)

FieldNames == {"prefix", "guard", "radix", "leftover"}

\* d and e agree on the bits of every field below its declared width.
SameDeclaredBits(ci, d, e, W) ==
    \A f \in FieldNames :
        d[f] \cap LowBits(FieldWidth(ci, f, W), W)
          = e[f] \cap LowBits(FieldWidth(ci, f, W), W)

\* Every bit of the declared width of field f of d is set, every other field
\* of d is zero.
OnlyFieldFull(ci, d, f, W) ==
    /\ d[f] = LowBits(FieldWidth(ci, f, W), W)
    /\ \A g \in FieldNames \ {f} : d[g] = {}

\* C22: encode masks every field to its declared width: bits of a field at or
\* above its width never change the encoded word, and a field with every bit
\* of its declared width set (a width equal to word_bits included) is encoded
\* in full.
C22_EncodeMasksFields ==
    (codec.op = "encode" /\ ShapeValid(info, word_bits)) =>
        /\ \A e \in DecodedInputs(info, word_bits) :
              SameDeclaredBits(info, codec.d, e, word_bits)
                 => encode(info, e, word_bits) = codec.w
        /\ \A f \in FieldNames :
              OnlyFieldFull(info, codec.d, f, word_bits)
                 => Cardinality(codec.w) = FieldWidth(info, f, word_bits)

-----------------------------------------------------------------------------
(* The addresses of the slots of one window, compared with each other.      *)

\* The positions of the radix field in the address layout.
RadixRange(ci, W) ==
    { b \in AllOnes(W) : /\ b >= LayoutLeftoverBits(ci, W)
                         /\ b < LayoutLeftoverBits(ci, W) + ci.radix_bits }

\* The positions at which the words x and y differ.
DifferingBits(x, y) == (x \ y) \cup (y \ x)

\* cptr_to was called with an index of the window, on a shape that fits a word.
CptrToInWindow ==
    /\ wcall.op = "cptr_to"
    /\ wcall.cptr.some
    /\ ShapeValid(info, word_bits)

\* C23: for any two indices i, j < num_slots of one window under one shape,
\* the words cptr_to returns differ only inside the radix field of the address
\* layout: their prefix, guard and leftover ranges are the same.
C23_OnlyRadixVaries ==
    CptrToInWindow =>
        \A j \in 0 .. (window.num_slots - 1) :
            DifferingBits(wcall.cptr.val,
                          cptr_to(window, info, j, word_bits).val)
              \subseteq RadixRange(info, word_bits)

\* first_slot_idx + num_slots <= 2^radix_bits: the last slot of the window,
\* if there is one, is a slot of the table.
WindowInTable(win, ci, W) ==
    win.num_slots > 0 => SlotInTable(win, ci, win.num_slots - 1, W)

\* C28: for a window with first_slot_idx + num_slots <= 2^radix_bits under a
\* shape whose widths sum to at most word_bits, cptr_to is injective on the
\* window: distinct indices below num_slots give distinct address words.
C28_CptrToInjective ==
    (CptrToInWindow /\ WindowInTable(window, info, word_bits)) =>
        \A j \in 0 .. (window.num_slots - 1) :
            j # wcall.i =>
                cptr_to(window, info, j, word_bits).val # wcall.cptr.val

-----------------------------------------------------------------------------
(* The calls of one create, taken together.                                 *)

\* The slots the k-th call of the create names: offset .. offset + count - 1.
CallRange(k) ==
    { NumOf(cr.calls[k].offset) + i : i \in 0 .. (cr.calls[k].count - 1) }

\* The first slot after those the k-th call names.
CallEnd(k) == NumOf(cr.calls[k].offset) + cr.calls[k].count

\* C24: the calls of one create cover the window once and in order: the j-th
\* call starts at first_slot_idx + 256*(j-1), the ranges of different calls do
\* not overlap (each ends before the next begins), when all calls succeed their union is
\* first_slot_idx .. first_slot_idx + num_slots - 1, and the untyped cap, the
\* object tag, size_bits and the destination root, cptr and depth are the same
\* in every call.
C24_CallsCoverWindowInOrder ==
    /\ \A j \in 1 .. Len(cr.calls) :
          /\ NumOf(cr.calls[j].offset)
               = NumOf(window.first_slot_idx)
                   + CONFIG_RETYPE_FAN_OUT_LIMIT * (j - 1)
          /\ cr.calls[j].untyped = cr.untyped_memory
          /\ cr.calls[j].objtag = cr.objtag
          /\ cr.calls[j].size_bits = cr.size_bits
          /\ cr.calls[j].root = window.cnode.root
          /\ cr.calls[j].cptr = window.cnode.cptr
          /\ cr.calls[j].depth = window.cnode.depth
          /\ \A k \in 1 .. (j - 1) : CallEnd(k) <= NumOf(cr.calls[j].offset)
    /\ (cr.pc = "returned" /\ AllCallsSucceeded) =>
          UNION { CallRange(j) : j \in 1 .. Len(cr.calls) }
            = { NumOf(window.first_slot_idx) + i :
                  i \in 0 .. (window.num_slots - 1) }

\* create returned Ok for a window of 600 slots from slot 7 on, after three
\* calls at the offsets 7, 263 and 519.
C24_Witness ==
    /\ cr.pc = "returned"
    /\ cr.result = "Ok"
    /\ window.num_slots = 600
    /\ Len(cr.calls) = 3
    /\ NumOf(cr.calls[1].offset) = 7
    /\ NumOf(cr.calls[2].offset) = 263
    /\ NumOf(cr.calls[3].offset) = 519

-----------------------------------------------------------------------------
(* details() and the contents of the buffer at the time it is called.       *)

\* The buffer holds an error of the taxonomy: a known label and, for
\* FailedLookup, a known lookup failure type.
InTaxonomy(buf) ==
    /\ buf.tag_label \in seL4_NoError .. seL4_NotEnoughMemory
    /\ buf.tag_label = seL4_FailedLookup
          => buf.msg[1] \in seL4_NoFailure .. seL4_GuardMismatch

\* The value the taxonomy assigns to the contents of an in-taxonomy buffer:
\* what the arm for its label builds from its message registers.
DecodedFrom(buf) ==
    IF buf.tag_label = seL4_FailedLookup
    THEN IF buf.msg[1] = seL4_NoFailure
         THEN None
         ELSE Some([tag |-> "FailedLookup",
                    failed_for_source |-> (buf.msg[0] = 1),
                    lookup_kind |-> LookupKindOf(buf)])
    ELSE CHOOSE o \in DetailsArm(buf.tag_label, buf) : TRUE

\* C25: an Error(CheckIPCBuf) holds no copy of the failure data: details()
\* decodes what the buffer holds when it is called.  It returns the failing
\* call's error if nothing wrote the buffer in between, and after a later call
\* has overwritten the buffer it returns the value decoded from the newer
\* contents.
C25_DetailsDecodesCurrentBuffer ==
    ( /\ dcall.op = "details"
      /\ dcall.err = "CheckIPCBuf"
      /\ InTaxonomy(ipcbuf) )
    => dcall.outcome = DecodedFrom(ipcbuf)

\* C26: details() on an Error(CheckIPCBuf) never aborts when the label in the
\* buffer is one of seL4_NoError .. seL4_NotEnoughMemory, and from_ipcbuf never
\* aborts when the lookup failure type is one of seL4_NoFailure ..
\* seL4_GuardMismatch: both assertions hold for every in-taxonomy buffer.
C26_AssertionsHoldInTaxonomy ==
    ( /\ dcall.op = "details"
      /\ dcall.err = "CheckIPCBuf"
      /\ InTaxonomy(ipcbuf) )
    => /\ dcall.outcome # Panic
       /\ details_assert(ipcbuf.tag_label)
       /\ ipcbuf.tag_label = seL4_FailedLookup
             => /\ from_ipcbuf_assert(ipcbuf.msg[1])
                /\ Panic \notin from_ipcbuf(ipcbuf, 1, 2)

-----------------------------------------------------------------------------
(* Termination of create.                                                   *)

\* The values of num_slots around each multiple of the fan-out limit.
NumSlotsAtBatchEdges ==
    { n \in 0 .. MaxSlots :
        \/ n % CONFIG_RETYPE_FAN_OUT_LIMIT \in {0, 1}
        \/ (n + 1) % CONFIG_RETYPE_FAN_OUT_LIMIT = 0
        \/ n = MaxSlots }

\* create called on the windows whose num_slots lies at a batch edge.
InitCreateLive ==
    /\ InitCreate
    /\ window.num_slots \in NumSlotsAtBatchEdges

\* The thread that called create keeps running: a step of create that can be
\* taken is taken (seL4_Untyped_Retype returns, it does not suspend the
\* caller).
SpecCreateLive == InitCreateLive /\ [][NextCreate]_vars /\ WF_vars(NextCreate)

\* C27: create terminates for every num_slots and every pattern of call
\* outcomes: an iteration of the loop that goes on takes 256 off num_slots,
\* at most ceil(num_slots / 256) calls are issued, and a create that was
\* entered returns.
C27_CreateTerminates ==
    /\ [](Len(cr.calls) <= CeilBatches(window.num_slots))
    /\ [][(cr.pc = "while" /\ cr'.pc = "while")
            => cr'.dest.num_slots
                 = cr.dest.num_slots - CONFIG_RETYPE_FAN_OUT_LIMIT]_vars
    /\ (cr.pc = "while") ~> (cr.pc = "returned")

\* create returned for the largest window after four calls, the last of which
\* failed.
C27_Witness ==
    /\ cr.pc = "returned"
    /\ Len(cr.calls) = 4
    /\ cr.calls[4].status # 0
    /\ CeilBatches(window.num_slots) = 4

-----------------------------------------------------------------------------
(* set_cap_destination / get_cap_destination (lib.rs): the slot received    *)
(* capabilities go to, kept in the IPC buffer of the thread.                *)

\* Number of set_cap_destination calls in one behaviour.
MaxSets == 2

\* x as seL4_Word for a u8 x: the same number, as a word.
u8_as_word(x, W) == WordOf(x, W)

\* w as u8 for a word w: its low eight bits, as a number.
word_as_u8(w) == NumOf(w \cap (0 .. 7))

\* The SlotRefs set_cap_destination is called with: root and cptr zero, a
\* small value or all ones; depth 0, the word width, or the largest u8.
SlotRefInputs(W) ==
    [root  : { {}, WordOf(2, W), AllOnes(W) },
     cptr  : { {}, WordOf(5, W), AllOnes(W) },
     depth : { 0, 1, W, 255 }]

\* A slip: the index of the slot is not written.
set_cap_destination_without_index(buf, slot, W) ==
    [buf EXCEPT !.receiveCNode = slot.root,
                !.receiveDepth = u8_as_word(slot.depth, W)]

\* set_cap_destination(slot): the three receive fields of the buffer after it.
\* slot.root.to_cap() is the CPtr the CNode wraps.
set_cap_destination(buf, slot, W) ==
    [buf EXCEPT !.receiveCNode = slot.root,
                !.receiveIndex = slot.cptr,
                !.receiveDepth = u8_as_word(slot.depth, W)]

\* get_cap_destination(): SlotRef::new(CNode::from_cap(receiveCNode),
\* receiveIndex, receiveDepth as u8).
get_cap_destination(buf) ==
    [root  |-> buf.receiveCNode,
     cptr  |-> buf.receiveIndex,
     depth |-> word_as_u8(buf.receiveDepth)]

InitCapDest ==
    /\ word_bits \in WordSizes
    /\ info = [guard_val |-> {}, radix_bits |-> 0, guard_bits |-> 0, prefix_bits |-> 0]
    /\ codec = NoCodecCall
    /\ window = NoWindow
    /\ wcall = NoWindowCall
    /\ cr = NoCreate
    /\ slots = {}
    /\ ipcbuf = ZeroIPCBuffer
    /\ dcall = NoDetailsCall
    /\ ep = NoEndpointCall
    /\ cd = NoCapDestCall
    /\ crm = NoMacrosCreate

\* set_cap_destination(slot)
CallSetCapDestination ==
    /\ cd.nsets < MaxSets
    /\ \E slot \in SlotRefInputs(word_bits) :
          /\ ipcbuf' = set_cap_destination(ipcbuf, slot, word_bits)
          /\ cd' = [cd EXCEPT !.op = "set", !.last_set = slot, !.nsets = @ + 1]
    /\ UNCHANGED <<word_bits, info, codec, window, wcall, cr, slots, dcall, ep, crm>>

\* get_cap_destination(): the buffer is read, not written.  Up to two calls
\* are made in a row.
CallGetCapDestination ==
    /\ cd.op \in {"none", "set", "get"}
    /\ cd' = [cd EXCEPT !.op = IF cd.op = "get" THEN "get_again" ELSE "get",
                        !.got = get_cap_destination(ipcbuf)]
    /\ UNCHANGED <<word_bits, info, codec, window, wcall, cr, slots, ipcbuf, dcall, ep, crm>>

NextCapDest ==
    \/ CallSetCapDestination
    \/ CallGetCapDestination

SpecCapDest == InitCapDest /\ [][NextCapDest]_vars

\* C29: after any sequence of set_cap_destination calls, get_cap_destination
\* returns the SlotRef (root, cptr, depth) of the most recent one, and a
\* get_cap_destination call leaves the stored destination as it was.
C29_GetReturnsLastSet ==
    /\ []((cd.op \in {"get", "get_again"} /\ cd.nsets > 0)
            => cd.got = cd.last_set)
    /\ [][(cd'.op \in {"get", "get_again"})
            => /\ ipcbuf' = ipcbuf
               /\ cd'.last_set = cd.last_set]_vars

\* After two set calls with different slots, two get calls in a row returned
\* the second slot, of depth 255.
C29_Witness ==
    /\ cd.op = "get_again"
    /\ cd.nsets = 2
    /\ cd.got = cd.last_set
    /\ cd.got.depth = 255
    /\ cd.got.cptr = AllOnes(word_bits)
    /\ ipcbuf.receiveIndex = AllOnes(word_bits)


-----------------------------------------------------------------------------
(* Allocatable::create as the cap_wrapper! of macros.rs generates it, run   *)
(* after the create of lib.rs on the same arguments and against the same    *)
(* kernel outcomes.                                                         *)

\* A plausible slip: the status of seL4_Untyped_Retype is not looked at.
unsafe_as_result_always_ok(status) == "Ok"

\* unsafe_as_result!(e): Ok(()) when e is 0, Err(Error(CheckIPCBuf)) otherwise.
unsafe_as_result(status) == IF status = 0 THEN "Ok" ELSE "Err(CheckIPCBuf)"

\* r?: whether the operator returns r from the enclosing function.
QuestionMarkReturns(r) == r # "Ok"

\* while dest.num_slots > CONFIG_RETYPE_FAN_OUT_LIMIT (macros.rs)
MacrosWhileCond(dest) == dest.num_slots > CONFIG_RETYPE_FAN_OUT_LIMIT

\* if dest.num_slots > 0 (macros.rs)
MacrosIfCond(dest) == dest.num_slots > 0

\* dest.first_slot_idx += LIMIT; dest.num_slots -= LIMIT (macros.rs)
MacrosAdvanceDest(dest, W) ==
    [dest EXCEPT
        !.first_slot_idx = wrapping_add(@, WordOf(CONFIG_RETYPE_FAN_OUT_LIMIT, W), W),
        !.num_slots = @ - CONFIG_RETYPE_FAN_OUT_LIMIT]

\* The arguments macros.rs passes to seL4_Untyped_Retype, in the order of the
\* call, and the status it returned.
MacrosRetypeCall(c, count, status) ==
    [untyped   |-> c.untyped_memory,
     objtag    |-> c.objtag,
     size_bits |-> c.size_bits,
     root      |-> c.dest.cnode.root,
     cptr      |-> c.dest.cnode.cptr,
     depth     |-> c.dest.cnode.depth,
     offset    |-> c.dest.first_slot_idx,
     count     |-> count,
     status    |-> status]

\* The statuses the kernel may return to the k-th call: the one it returned to
\* the k-th call of the create of lib.rs, any status for a call beyond those.
OutcomesOfCall(k) ==
    IF k <= Len(cr.calls) THEN {cr.calls[k].status} ELSE RetypeStatuses

\* The create of macros.rs is entered with the arguments the create of lib.rs
\* was entered with, on an empty destination CNode.
MacrosEnter ==
    /\ cr.pc = "returned"
    /\ crm.pc = "idle"
    /\ crm' = [pc |-> "while", untyped_memory |-> cr.untyped_memory,
               objtag |-> cr.objtag, size_bits |-> cr.size_bits,
               dest |-> window, calls |-> <<>>, result |-> "none",
               occupied |-> {}]
    /\ UNCHANGED <<word_bits, info, codec, window, wcall, cr, slots, ipcbuf, dcall, ep, cd>>

\* One evaluation of the loop condition and, when it holds, one iteration: a
\* call for CONFIG_RETYPE_FAN_OUT_LIMIT objects under unsafe_as_result!(..)?.
MacrosWhile ==
    /\ crm.pc = "while"
    /\ IF MacrosWhileCond(crm.dest)
       THEN \E status \in OutcomesOfCall(Len(crm.calls) + 1) :
              LET call == MacrosRetypeCall(crm, CONFIG_RETYPE_FAN_OUT_LIMIT, status)
                  r    == unsafe_as_result(status)
              IN  IF QuestionMarkReturns(r)
                  THEN crm' = [crm EXCEPT
                                  !.calls = Append(@, call),
                                  !.occupied = seL4_Untyped_Retype(@, call),
                                  !.result = r,
                                  !.pc = "returned"]
                  ELSE crm' = [crm EXCEPT
                                  !.calls = Append(@, call),
                                  !.occupied = seL4_Untyped_Retype(@, call),
                                  !.dest = MacrosAdvanceDest(@, word_bits)]
       ELSE crm' = [crm EXCEPT !.pc = "if"]
    /\ UNCHANGED <<word_bits, info, codec, window, wcall, cr, slots, ipcbuf, dcall, ep, cd>>

\* The statement after the loop, a call for the remaining objects under
\* unsafe_as_result!(..)?, and the closing Ok(()).
MacrosIf ==
    /\ crm.pc = "if"
    /\ IF MacrosIfCond(crm.dest)
       THEN \E status \in OutcomesOfCall(Len(crm.calls) + 1) :
              LET call == MacrosRetypeCall(crm, crm.dest.num_slots, status)
                  r    == unsafe_as_result(status)
              IN  crm' = [crm EXCEPT
                             !.calls = Append(@, call),
                             !.occupied = seL4_Untyped_Retype(@, call),
                             !.result = IF QuestionMarkReturns(r) THEN r ELSE "Ok",
                             !.pc = "returned"]
       ELSE crm' = [crm EXCEPT !.result = "Ok", !.pc = "returned"]
    /\ UNCHANGED <<word_bits, info, codec, window, wcall, cr, slots, ipcbuf, dcall, ep, cd>>

NextCreateBoth ==
    \/ CreateEnter
    \/ CreateWhile
    \/ CreateIf
    \/ MacrosEnter
    \/ MacrosWhile
    \/ MacrosIf

SpecCreateBoth == InitCreateLive /\ [][NextCreateBoth]_vars

\* C30: run on the same window, size_bits and kernel outcomes, the create of
\* macros.rs issues the seL4_Untyped_Retype calls the create of lib.rs issued,
\* with the same arguments and in the same order (at every point a prefix of
\* them, all of them once it has returned), returns the same result and leaves
\* the same slots filled.
C30_CreateDefinitionsEquivalent ==
    /\ (crm.pc # "idle") =>
          /\ Len(crm.calls) <= Len(cr.calls)
          /\ crm.calls = SubSeq(cr.calls, 1, Len(crm.calls))
    /\ (crm.pc = "returned") =>
          /\ crm.calls = cr.calls
          /\ crm.result = cr.result
          /\ crm.occupied = slots

\* Both definitions have returned Err after three calls, the third the final
\* call for the objects left over after two full batches.
C30_Witness ==
    /\ crm.pc = "returned"
    /\ cr.pc = "returned"
    /\ Len(crm.calls) = 3
    /\ crm.calls[3].count < CONFIG_RETYPE_FAN_OUT_LIMIT
    /\ crm.calls[3].status # 0
    /\ crm.result = "Err(CheckIPCBuf)"
    /\ cr.result = "Err(CheckIPCBuf)"
=============================================================================
